---- MODULE Spec2Model ----
(***************************************************************************)
(* SNAPLib/WGsim.cpp: decoding of wgsim-style read ids into the interval   *)
(* of genome coordinates the read was generated from, the misalignment     *)
(* verdict for a candidate location, and the generation of such ids.       *)
(*                                                                         *)
(* A C string is a sequence of one-character strings.  An `unsigned` is a  *)
(* pair <<hi, lo>> of 16-bit limbs (value hi * 2^16 + lo), so that the     *)
(* 32-bit width of the source's arithmetic is kept exactly.                *)
(***************************************************************************)
EXTENDS Integers, Sequences, FiniteSets, TLC

(***************************************************************************)
(* 32-bit unsigned arithmetic                                              *)
(***************************************************************************)
Limb == 2^16

\* The unsigned with value n, for 0 <= n < 2^31.
U32(n) == <<n \div Limb, n % Limb>>

UINT_MAX == <<Limb - 1, Limb - 1>>
INT_MAX == <<(Limb \div 2) - 1, Limb - 1>>

\* a + b modulo 2^32
Add32(a, b) ==
    LET lo == a[2] + b[2]
        hi == a[1] + b[1] + (lo \div Limb)
    IN  <<hi % Limb, lo % Limb>>

\* -a modulo 2^32 (two's complement)
Neg32(a) == Add32(<<Limb - 1 - a[1], Limb - 1 - a[2]>>, U32(1))

\* a - b modulo 2^32
Sub32(a, b) == Add32(a, Neg32(b))

\* a < b and a > b on unsigned
Lt32(a, b) == a[1] < b[1] \/ (a[1] = b[1] /\ a[2] < b[2])
Gt32(a, b) == Lt32(b, a)

\* the unsigned an int converts to: 2^32 + k for a negative k
IntToU32(k) == IF k >= 0 THEN U32(k) ELSE Neg32(U32(0 - k))

\* whether the bit pattern a, read as an int, is negative
IsNegative(a) == a[1] >= Limb \div 2

\* a * 10 + d modulo 2^32
Mul10Add(a, d) ==
    LET lo == a[2] * 10 + d
        hi == a[1] * 10 + (lo \div Limb)
    IN  <<hi % Limb, lo % Limb>>

\* a \div 10 and a % 10
Div10(a) == <<a[1] \div 10, (((a[1] % 10) * Limb) + a[2]) \div 10>>
Mod10(a) == (((a[1] % 10) * Limb) + a[2]) % 10

(***************************************************************************)
(* Characters                                                              *)
(***************************************************************************)
Digits == <<"0", "1", "2", "3", "4", "5", "6", "7", "8", "9">>
IsDigit(c) == \E i \in 1..10 : Digits[i] = c
DigitVal(c) == (CHOOSE i \in 1..10 : Digits[i] = c) - 1
\* isspace of the C locale
IsSpace(c) == c \in {" ", "\t", "\n", "\r", "\f"}

\* n copies of the character c
Rep(c, n) == [i \in 1..n |-> c]

(***************************************************************************)
(* Program constants                                                       *)
(***************************************************************************)
\* char id[1024]
idSize == 1024
\* const size_t contigNameMaxSize = 200
contigNameMaxSize == 200

(***************************************************************************)
(* C library: strchr, sscanf("%d"), sprintf("%d")                          *)
(***************************************************************************)
\* the indices (from 1) at which s holds c
Occurrences(s, c) == { i \in 1..Len(s) : s[i] = c }

\* a strchr that finds the last c (strrchr)
strchrLast(s, c) ==
    LET at == Occurrences(s, c)
    IN  IF at = {} THEN 0 ELSE CHOOSE i \in at : \A j \in at : j <= i

\* strchr(s, c): the index of the first c in s, 0 for NULL
strchr(s, c) ==
    LET at == Occurrences(s, c)
    IN  IF at = {} THEN 0 ELSE CHOOSE i \in at : \A j \in at : i <= j

\* first index at or after p that holds no white space
RECURSIVE SkipSpace(_, _)
SkipSpace(s, p) ==
    IF p <= Len(s) /\ IsSpace(s[p]) THEN SkipSpace(s, p + 1) ELSE p

\* first index at or after p that holds no digit
RECURSIVE DigitsEnd(_, _)
DigitsEnd(s, p) ==
    IF p <= Len(s) /\ IsDigit(s[p]) THEN DigitsEnd(s, p + 1) ELSE p

\* the value of the digits s[p..e-1], accumulated onto acc
RECURSIVE DigitsValue(_, _, _, _)
DigitsValue(s, p, e, acc) ==
    IF p >= e THEN acc
    ELSE DigitsValue(s, p + 1, e, Mul10Add(acc, DigitVal(s[p])))

\* sscanf(s + p - 1, "%d", &v): n is the returned count (1: converted,
\* 0: matching failure, -1: EOF, input ended before any conversion) and value
\* the bits stored in v.  White space is skipped, one sign is accepted, and
\* the conversion ends at the first character that is not a digit.  A numeral
\* outside the range of int, whose conversion is undefined, is in no id here.
sscanf_d(s, p) ==
    LET q    == SkipSpace(s, p)
        sign == q <= Len(s) /\ s[q] \in {"+", "-"}
        r    == IF sign THEN q + 1 ELSE q
        e    == DigitsEnd(s, r)
        mag  == DigitsValue(s, r, e, U32(0))
    IN  IF q > Len(s) THEN [n |-> -1, value |-> U32(0)]
        ELSE IF e = r THEN [n |-> 0, value |-> U32(0)]
        ELSE [n |-> 1, value |-> IF sign /\ s[q] = "-" THEN Neg32(mag) ELSE mag]

\* the decimal digits of the unsigned a
RECURSIVE DecDigits(_)
DecDigits(a) ==
    IF Div10(a) = U32(0) THEN <<Digits[Mod10(a) + 1]>>
    ELSE DecDigits(Div10(a)) \o <<Digits[Mod10(a) + 1]>>

\* sprintf("%d") of the bits a: they are printed as an int
sprintf_d(a) ==
    IF IsNegative(a) THEN <<"-">> \o DecDigits(Neg32(a)) ELSE DecDigits(a)

(***************************************************************************)
(* The Genome collaborator (Genome.h is not part of the unit): contigs     *)
(* with a name and the offset of their first base in the whole genome.     *)
(***************************************************************************)
NameC == <<"c">>
NameC1 == <<"c", "_", "1">>
NameChr1 == <<"c", "h", "r", "_", "1">>
NameFits == Rep("a", contigNameMaxSize - 1)
NameTooLong == Rep("a", contigNameMaxSize)

Genome ==
    { [name |-> NameC,       beginningOffset |-> U32(0)],
      [name |-> NameC1,      beginningOffset |-> U32(1000)],
      [name |-> NameChr1,    beginningOffset |-> U32(2000)],
      [name |-> NameFits,    beginningOffset |-> U32(3000)],
      [name |-> NameTooLong, beginningOffset |-> U32(4000)] }

\* genome->getOffsetOfContig(name, &offset)
getOffsetOfContig(name) ==
    IF \E c \in Genome : c.name = name
    THEN [found |-> TRUE,
          offset |-> (CHOOSE c \in Genome : c.name = name).beginningOffset]
    ELSE [found |-> FALSE, offset |-> U32(0)]

\* genome->getContigAtLocation(location): the last contig that begins at or
\* before the location
getContigAtLocation(location) ==
    CHOOSE c \in Genome :
        /\ ~Lt32(location, c.beginningOffset)
        /\ \A d \in Genome :
              ~Lt32(location, d.beginningOffset)
                  => ~Lt32(c.beginningOffset, d.beginningOffset)

(***************************************************************************)
(* wgsimReadMisaligned, the overload that takes the Genome                 *)
(***************************************************************************)
\* a scan that runs forward from the start of the id
ScanForward(s, p) ==
    LET at == { i \in Occurrences(s, "_") : i <= p }
    IN  IF at = {} THEN 0 ELSE CHOOSE i \in at : \A j \in at : i <= j

\* for (u = p; u >= id && *u != '_'; u--) {}: the index of the nearest '_'
\* at or before p, 0 when the scan runs off the front of the id (u < id)
ScanBack(s, p) ==
    LET at == { i \in Occurrences(s, "_") : i <= p }
    IN  IF at = {} THEN 0 ELSE CHOOSE i \in at : \A j \in at : j <= i

\* std::max and std::min on unsigned
max(a, b) == IF Lt32(a, b) THEN b ELSE a
min(a, b) == IF Lt32(b, a) THEN b ELSE a

\* offset + offsetOfContig - 1: one-based in the contig to zero-based in the genome
AbsOffset(offset, offsetOfContig) == Sub32(Add32(offset, offsetOfContig), U32(1))

\* a test that never takes the single-end branch
SingleEndNever(underscoreBeforeColon, secondUnderscoreBeforeColon) == FALSE

\* whether no second offset is given: the two underscores are adjacent
SingleEnd(underscoreBeforeColon, secondUnderscoreBeforeColon) ==
    underscoreBeforeColon = secondUnderscoreBeforeColon + 1

\* a size check that is off by one
NameTooBigOffByOne(contigNameLen) == contigNameLen > contigNameMaxSize

\* contigNameLen >= contigNameMaxSize
NameTooBig(contigNameLen) == contigNameLen >= contigNameMaxSize

\* a lookup whose result is ignored
ContigMissingIgnored(contig) == FALSE

\* !genome->getOffsetOfContig(contigName, &offsetOfContig)
ContigMissing(contig) == ~contig.found

Failure(message) == [diag |-> message, low |-> U32(0), high |-> U32(0)]

\* The parse of the copied id: diag is the message written to stderr
\* ("none" when the id decodes), low and high the decoded interval.
\*   MissingColon        "couldn't find a colon"
\*   MissingUnderscore1  "couldn't find underscore before colon"
\*   MissingUnderscore2  "couldn't find second underscore before colon"
\*   MissingUnderscore3  "couldn't find third underscore before colon"
\*   BadOffset1          "couldn't parse offset1"
\*   BadOffset2          "couldn't parse offset2"
\*   ContigNameTooLong   "Contig name too big or misparsed"
\*   UnknownContig       "Couldn't find contig name ... in the genome"
Decode(id) ==
    LET firstColon == strchr(id, ":")
        underscoreBeforeColon == ScanBack(id, firstColon - 1)
        secondUnderscoreBeforeColon == ScanBack(id, underscoreBeforeColon - 1)
        thirdUnderscoreBeforeColon == ScanBack(id, secondUnderscoreBeforeColon - 1)
        scan1 == sscanf_d(id, thirdUnderscoreBeforeColon + 1)
        scan2 == sscanf_d(id, secondUnderscoreBeforeColon + 1)
        single == SingleEnd(underscoreBeforeColon, secondUnderscoreBeforeColon)
        offset1 == scan1.value
        offset2 == IF single THEN offset1 ELSE scan2.value
        contigNameLen == thirdUnderscoreBeforeColon - 1
        contigName == SubSeq(id, 1, contigNameLen)
        contig == getOffsetOfContig(contigName)
        abs1 == AbsOffset(offset1, contig.offset)
        abs2 == AbsOffset(offset2, contig.offset)
    IN  IF firstColon = 0 THEN Failure("MissingColon")
        ELSE IF underscoreBeforeColon < 1 THEN Failure("MissingUnderscore1")
        ELSE IF secondUnderscoreBeforeColon < 1 THEN Failure("MissingUnderscore2")
        ELSE IF thirdUnderscoreBeforeColon < 1 THEN Failure("MissingUnderscore3")
        ELSE IF 1 # scan1.n THEN Failure("BadOffset1")
        ELSE IF ~single /\ 1 # scan2.n THEN Failure("BadOffset2")
        ELSE IF NameTooBig(contigNameLen) THEN Failure("ContigNameTooLong")
        ELSE IF ContigMissing(contig) THEN Failure("UnknownContig")
        ELSE [diag |-> "none", low |-> min(abs1, abs2), high |-> max(abs1, abs2)]

\* a verdict whose upper comparison is not strict
VerdictNotStrict(genomeLocation, low, high, maxK) ==
    \/ ~Lt32(genomeLocation, Add32(high, IntToU32(maxK)))
    \/ Lt32(Add32(genomeLocation, IntToU32(maxK)), low)

\* genomeLocation > high + maxK || genomeLocation + maxK < low, in unsigned
\* arithmetic: the int maxK is converted to unsigned and the sums wrap
Verdict(genomeLocation, low, high, maxK) ==
    \/ Gt32(genomeLocation, Add32(high, IntToU32(maxK)))
    \/ Lt32(Add32(genomeLocation, IntToU32(maxK)), low)

\* read->getIdLength() > sizeof(id) - 1
IdTooLong(id) == Len(id) > idSize - 1

(***************************************************************************)
(* wgsimGenerateIDString                                                   *)
(***************************************************************************)
\* an id that holds the zero-based offset
IDStringZeroBased(name, offsetInContig, readLength, firstHalf) ==
    name \o <<"_">> \o sprintf_d(offsetInContig)
         \o <<"_">> \o sprintf_d(Add32(offsetInContig, readLength))
         \o <<"_", "0", ":", ":", "0", ":", "0", "_", "2", ":", "0", ":",
              "a", "0", "_", "0", "/">>
         \o sprintf_d(IF firstHalf THEN U32(1) ELSE U32(2))

\* sprintf(outputBuffer, "%s_%d_%d_0::0:0_2:0:a0_0/%d", contig->name,
\*         offsetInContig + 1, offsetInContig + readLength, firstHalf ? 1 : 2)
IDString(name, offsetInContig, readLength, firstHalf) ==
    name \o <<"_">> \o sprintf_d(Add32(offsetInContig, U32(1)))
         \o <<"_">> \o sprintf_d(Add32(offsetInContig, readLength))
         \o <<"_", "0", ":", ":", "0", ":", "0", "_", "2", ":", "0", ":",
              "a", "0", "_", "0", "/">>
         \o sprintf_d(IF firstHalf THEN U32(1) ELSE U32(2))

(***************************************************************************)
(* Bounds and inputs                                                       *)
(***************************************************************************)
\* the most '_'-separated fields of an enumerated id
MaxFields == 5

FieldTexts == { <<>>, <<"c">>, <<"1">>, <<"2">>, <<"2", "x">> }

\* what follows the fields: nothing, or a first ':' and more delimiters
Posts == { <<>>, <<":", "_", ":">> }

\* the fields joined by '_'
RECURSIVE Join(_)
Join(fs) ==
    IF Len(fs) = 1 THEN fs[1] ELSE fs[1] \o <<"_">> \o Join(Tail(fs))

FieldIds ==
    { Join(fs) \o post :
        fs \in UNION { [1..k -> FieldTexts] : k \in 1..MaxFields },
        post \in Posts }

\* ids whose contig name is one byte below and at the maximal size
LongNameIds ==
    { Rep("a", n) \o <<"_">> \o f1 \o <<"_">> \o f2 \o <<"_", "0", ":">> :
        n \in {contigNameMaxSize - 1, contigNameMaxSize},
        f1 \in FieldTexts, f2 \in FieldTexts }

\* ids one byte below and at the size of the id buffer
LongIds == { Rep("a", idSize - 1), Rep("a", idSize) }

NoColonHere == <<"n", "o", "C", "o", "l", "o", "n", "H", "e", "r", "e">>
NoUnderscorePattern ==
    <<"a", "_", "b", "_", "c", "_", "n", "o", "U", "n", "d", "e", "r", "s", "c",
      "o", "r", "e", "P", "a", "t", "t", "e", "r", "n", ":">>
Chr1Example ==
    <<"c", "h", "r", "_", "1", "_", "1", "0", "0", "_", "2", "0", "0", "_", "0",
      ":", ":", "0", ":", "0", "_", "2", ":", "0", ":", "a", "0", "_", "0", "/", "1">>
SignedExample == <<"c", "_", " ", "1", "_", "+", "2", "_", "0", ":">>
NegativeExample == <<"c", "_", "-", "1", "_", "1", "_", "0", ":">>
ZeroExample == <<"c", "_", "0", "_", "_", "0", ":">>

ExampleIds ==
    { NoColonHere, NoUnderscorePattern, Chr1Example, SignedExample,
      NegativeExample, ZeroExample }

RawIds == FieldIds \cup LongNameIds \cup LongIds \cup ExampleIds

\* a few ids that decode to small intervals, and two that do not
JudgeIds ==
    { <<"c", "_", "1", "_", "2", "_", "0", ":">>,
      <<"c", "_", "2", "_", "1", "_", "0", ":">>,
      <<"c", "_", "2", "_", "_", "0", ":">>,
      <<"c", "_", "1", "_", "x", "_", "0", ":">>,
      ZeroExample, NoColonHere }

ArgsOf(locations, ks, nulls) ==
    { [location |-> l, maxK |-> k, lowNull |-> n[1], highNull |-> n[2]] :
        l \in locations, k \in ks, n \in nulls }

DecodeArgs ==
    ArgsOf({U32(0), U32(3)}, {1}, {<<FALSE, FALSE>>, <<TRUE, TRUE>>})

\* the candidate locations next to the start of the genome
MaxNear == 4

JudgeLocations ==
    { U32(n) : n \in (0..MaxNear) \cup {94, 95, 205, 206} }
        \cup { Sub32(UINT_MAX, U32(1)), UINT_MAX }

JudgeArgs ==
    ArgsOf(JudgeLocations, {0, 1, 5},
           {<<FALSE, FALSE>>, <<TRUE, FALSE>>, <<FALSE, TRUE>>})

GenOffsets == { U32(0), U32(100), INT_MAX, UINT_MAX }
GenLengths == { U32(1), U32(2), U32(101) }
GenLocations == { U32(5), U32(1099), U32(2100) }

\* what the caller's variables hold before the call
LowPrior == U32(11111)
HighPrior == U32(22222)

(***************************************************************************)
(* State                                                                   *)
(***************************************************************************)
VARIABLES
    id,              \* the id of the Read (read->getId(), read->getIdLength())
    gen,             \* <<the arguments the id was generated from>>, or <<>>
    genomeLocation,  \* the call's candidate location
    maxK,            \* the call's tolerance
    lowOutNull,      \* whether lowOut == NULL
    highOutNull,     \* whether highOut == NULL
    lowOut,          \* the caller's variable lowOut points to
    highOut,         \* the caller's variable highOut points to
    ret,             \* the value returned (when pc = "returned")
    diag,            \* the message written to stderr, "none" without one
    pc               \* "generate", "ready", "returned", "exited"

vars == <<id, gen, genomeLocation, maxK, lowOutNull, highOutNull, lowOut,
          highOut, ret, diag, pc>>

InitWith(ids) ==
    /\ \/ id \in ids /\ pc = "ready"
       \/ id = <<>> /\ pc = "generate"
    /\ gen = <<>>
    /\ genomeLocation = U32(0)
    /\ maxK = 0
    /\ lowOutNull = FALSE
    /\ highOutNull = FALSE
    /\ lowOut = LowPrior
    /\ highOut = HighPrior
    /\ ret = FALSE
    /\ diag = "none"

Init == InitWith(RawIds)
InitJudge == InitWith(JudgeIds)

(***************************************************************************)
(* Actions                                                                 *)
(***************************************************************************)
\* wgsimGenerateIDString(contig, offsetInContig, readLength, firstHalf, buf);
\* the buffer becomes the id of the generated read
GenerateFrom(contig, offsetInContig, readLength, firstHalf) ==
    /\ pc = "generate"
    /\ id' = IDString(contig.name, offsetInContig, readLength, firstHalf)
    /\ gen' = <<[contig |-> contig, offsetInContig |-> offsetInContig,
                 readLength |-> readLength, firstHalf |-> firstHalf]>>
    /\ pc' = "ready"
    /\ UNCHANGED <<genomeLocation, maxK, lowOutNull, highOutNull, lowOut,
                   highOut, ret, diag>>

wgsimGenerateIDString ==
    \E contig \in Genome, offsetInContig \in GenOffsets,
       readLength \in GenLengths, firstHalf \in BOOLEAN :
        GenerateFrom(contig, offsetInContig, readLength, firstHalf)

\* wgsimGenerateIDString(genome, genomeLocation, readLength, firstHalf, buf)
wgsimGenerateIDStringGenome ==
    \E location \in GenLocations, readLength \in GenLengths,
       firstHalf \in BOOLEAN :
        LET contig == getContigAtLocation(location)
        IN  GenerateFrom(contig, Sub32(location, contig.beginningOffset),
                         readLength, firstHalf)

\* wgsimReadMisaligned(read, genomeLocation, genome, maxK, lowOut, highOut)
ReadMisaligned(args) ==
    /\ pc = "ready"
    /\ genomeLocation' = args.location
    /\ maxK' = args.maxK
    /\ lowOutNull' = args.lowNull
    /\ highOutNull' = args.highNull
    /\ IF IdTooLong(id)
       THEN \* a message that prints the unset buffer, then soft_exit(1):
            \* whatever the message holds, the process ends and nothing returns
            /\ pc' = "exited"
            /\ diag' = "IdTooLong"
            /\ UNCHANGED <<lowOut, highOut, ret>>
       ELSE LET d == Decode(id)
            IN  /\ pc' = "returned"
                /\ diag' = d.diag
                /\ IF d.diag # "none"
                   THEN /\ ret' = FALSE
                        /\ UNCHANGED <<lowOut, highOut>>
                   ELSE /\ lowOut' = IF args.lowNull THEN lowOut ELSE d.low
                        /\ highOut' = IF args.highNull THEN highOut ELSE d.high
                        /\ ret' = Verdict(args.location, d.low, d.high, args.maxK)
    /\ UNCHANGED <<id, gen>>

wgsimReadMisaligned(Args) == \E args \in Args : ReadMisaligned(args)

\* wgsimReadMisaligned(read, location, index, maxK, lowOut, highOut):
\* the same call on index->getGenome()
wgsimReadMisalignedIndex(Args) == \E args \in Args : ReadMisaligned(args)

Next ==
    \/ wgsimGenerateIDString
    \/ wgsimGenerateIDStringGenome
    \/ wgsimReadMisaligned(DecodeArgs)
    \/ wgsimReadMisalignedIndex(DecodeArgs)

NextJudge ==
    \/ wgsimGenerateIDString
    \/ wgsimGenerateIDStringGenome
    \/ wgsimReadMisaligned(JudgeArgs)
    \/ wgsimReadMisalignedIndex(JudgeArgs)

Spec == Init /\ [][Next]_vars
SpecJudge == InitJudge /\ [][NextJudge]_vars

(***************************************************************************)
(* The statements' own reading of an id and of the arithmetic              *)
(***************************************************************************)
Returned == pc = "returned"
Decoded == pc = "returned" /\ diag = "none"
Failed == pc = "returned" /\ diag # "none"
BothOut == ~lowOutNull /\ ~highOutNull

\* the position of the first ':' of s, 0 without one
FirstColon(s) ==
    IF \A i \in 1..Len(s) : s[i] # ":" THEN 0
    ELSE CHOOSE i \in 1..Len(s) : s[i] = ":" /\ \A j \in 1..(i - 1) : s[j] # ":"

\* the positions of the underscores before the first ':'
Underscores(s) == { i \in 1..(FirstColon(s) - 1) : s[i] = "_" }

Top(S) == CHOOSE i \in S : \A j \in S : j <= i
U1(s) == Top(Underscores(s))
U2(s) == Top(Underscores(s) \ {U1(s)})
U3(s) == Top(Underscores(s) \ {U1(s), U2(s)})

\* the three fields the backward scan delimits, when there are three underscores
HasFields(s) == FirstColon(s) > 0 /\ Cardinality(Underscores(s)) >= 3
ContigField(s) == SubSeq(s, 1, U3(s) - 1)
Offset1Field(s) == SubSeq(s, U3(s) + 1, U2(s) - 1)
Offset2Field(s) == SubSeq(s, U2(s) + 1, U1(s) - 1)

\* a decimal numeral, and its value
IsDecimal(f) == Len(f) > 0 /\ \A i \in 1..Len(f) : IsDigit(f[i])
RECURSIVE DecimalValue(_)
DecimalValue(f) ==
    IF f = <<>> THEN 0
    ELSE DecimalValue(SubSeq(f, 1, Len(f) - 1)) * 10 + DigitVal(f[Len(f)])

\* a decimal integer: a numeral, with a sign or without
IsInteger(f) ==
    \/ IsDecimal(f)
    \/ Len(f) > 1 /\ f[1] \in {"+", "-"} /\ IsDecimal(Tail(f))

\* a text of which some prefix is white space and then a decimal integer
HasIntegerPrefix(f) ==
    \E m \in 0..Len(f) : \E n \in (m + 1)..Len(f) :
        /\ \A i \in 1..m : IsSpace(f[i])
        /\ IsInteger(SubSeq(f, m + 1, n))

Known(name) == \E c \in Genome : c.name = name
Base(name) == (CHOOSE c \in Genome : c.name = name).beginningOffset

\* the value of an unsigned below 2^31, and natural numbers of three limbs
NatOf(a) == a[1] * Limb + a[2]
Big(a) == <<0, a[1], a[2]>>
BigAdd(a, k) ==
    LET lo == a[2] + (k % Limb)
        hi == a[1] + (k \div Limb) + (lo \div Limb)
    IN  <<hi \div Limb, hi % Limb, lo % Limb>>
BigLt(x, y) ==
    \/ x[1] < y[1]
    \/ x[1] = y[1] /\ x[2] < y[2]
    \/ x[1] = y[1] /\ x[2] = y[2] /\ x[3] < y[3]

\* the decision rule in unbounded integers
RuleMisaligned(location, low, high, k) ==
    \/ BigLt(BigAdd(high, k), Big(location))
    \/ BigLt(BigAdd(location, k), Big(low))

\* neither sum of the rule exceeds 2^32 - 1
NoOverflow(location, high, k) ==
    BigAdd(high, k)[1] = 0 /\ BigAdd(location, k)[1] = 0

(***************************************************************************)
(* C1: round trip                                                          *)
(***************************************************************************)
GenArgs == gen[1]
GenLow == Add32(GenArgs.contig.beginningOffset, GenArgs.offsetInContig)
GenHigh == Sub32(Add32(GenLow, GenArgs.readLength), U32(1))
\* B + offsetInContig + readLength - 1 is below 2^32
GenFits == ~Lt32(GenLow, GenArgs.offsetInContig) /\ ~Lt32(GenHigh, GenLow)

\* C1 as stated: the id generated for any contig of the genome, any offset in
\* it and any read length decodes, to low = B + offsetInContig and
\* high = B + offsetInContig + readLength - 1.
C1_RoundTripAnyContig ==
    (Returned /\ gen # <<>>) =>
        /\ diag = "none"
        /\ ~lowOutNull => lowOut = GenLow
        /\ ~highOutNull => highOut = GenHigh

\* C1 amended: the id generated for a contig whose name is shorter than
\* contigNameMaxSize, with B + offsetInContig + readLength - 1 below 2^32,
\* decodes to low = B + offsetInContig, high = B + offsetInContig + readLength - 1.
C1_RoundTrip ==
    (Returned /\ gen # <<>> /\ Len(GenArgs.contig.name) < contigNameMaxSize
              /\ GenFits) =>
        /\ diag = "none"
        /\ ~lowOutNull => lowOut = GenLow
        /\ ~highOutNull => highOut = GenHigh

C1_Witness ==
    /\ Decoded /\ BothOut /\ gen # <<>>
    /\ GenArgs.contig.name = NameChr1
    /\ GenArgs.readLength = U32(101)
    /\ lowOut = U32(2100) /\ highOut = U32(2200)

(***************************************************************************)
(* C2: the tolerance is inclusive on both sides                            *)
(***************************************************************************)
\* C2: when no sum overflows, the call on a decoded interval [low, high]
\* returns true iff location > high + maxK or location + maxK < low.
C2_InclusiveTolerance ==
    (Decoded /\ BothOut /\ maxK >= 0 /\ NoOverflow(genomeLocation, highOut, maxK)) =>
        (ret <=> RuleMisaligned(genomeLocation, lowOut, highOut, maxK))

\* both sides of both boundaries of [100, 200] with maxK = 5 are reached
C2_Witness ==
    /\ Decoded /\ BothOut /\ maxK = 5
    /\ lowOut = U32(100) /\ highOut = U32(200)
    /\ genomeLocation = U32(205) /\ ~ret

(***************************************************************************)
(* C3: the backward scan delimits the contig name                          *)
(***************************************************************************)
\* a numeral of at most nine digits with a value of at least 1
IsOffsetText(f) == IsDecimal(f) /\ Len(f) <= 9 /\ DecimalValue(f) >= 1

\* c '_' o1 '_' o2 '_' f ':' r for a contig c of the genome
HasDialectForm(s) ==
    /\ HasFields(s)
    /\ IsOffsetText(Offset1Field(s))
    /\ IsOffsetText(Offset2Field(s))
    /\ Known(ContigField(s))

Offset1Value(s) == DecimalValue(Offset1Field(s))
Offset2Value(s) == DecimalValue(Offset2Field(s))
LesserOffset(s) ==
    IF Offset1Value(s) <= Offset2Value(s) THEN Offset1Value(s) ELSE Offset2Value(s)
GreaterOffset(s) ==
    IF Offset1Value(s) <= Offset2Value(s) THEN Offset2Value(s) ELSE Offset1Value(s)

DialectDecodes(s) ==
    /\ diag = "none"
    /\ ~lowOutNull =>
          lowOut = U32(LesserOffset(s) + NatOf(Base(ContigField(s))) - 1)
    /\ ~highOutNull =>
          highOut = U32(GreaterOffset(s) + NatOf(Base(ContigField(s))) - 1)
    /\ BothOut => ~Lt32(highOut, lowOut)

\* C3 as stated: every id c_o1_o2_f:r, whatever the contig name c, decodes
\* with c the text before the third underscore counted back from the first
\* ':', to low = min(o1, o2) + base(c) - 1 and high = max(o1, o2) + base(c) - 1.
C3_BackwardScanAnyName ==
    (Returned /\ HasDialectForm(id)) => DialectDecodes(id)

\* C3 amended: the same for a contig name shorter than contigNameMaxSize;
\* "chr_1_100_200_0::0:0_2:0:a0_0/1" decodes with contig "chr_1", offsets
\* 100 and 200.
C3_BackwardScan ==
    /\ (Returned /\ HasDialectForm(id)
                 /\ Len(ContigField(id)) < contigNameMaxSize) => DialectDecodes(id)
    /\ (Returned /\ id = Chr1Example) =>
          /\ diag = "none"
          /\ ContigField(id) = NameChr1
          /\ ~lowOutNull => lowOut = U32(2000 + 100 - 1)
          /\ ~highOutNull => highOut = U32(2000 + 200 - 1)

C3_Witness ==
    /\ Decoded /\ BothOut /\ id = Chr1Example
    /\ lowOut = U32(2099) /\ highOut = U32(2199)

(***************************************************************************)
(* C4: a failed decode against the two verdicts                            *)
(***************************************************************************)
AlignedResult == FALSE
MisalignedResult == TRUE

\* C4: what the caller receives after a failed decode is neither the value it
\* receives for "aligned" nor the one it receives for "misaligned".
C4_FailureDistinct ==
    Failed => (ret # AlignedResult /\ ret # MisalignedResult)

(***************************************************************************)
(* C5: the failure kinds of the delimiter scan                             *)
(***************************************************************************)
DelimiterKinds(s) ==
    /\ FirstColon(s) = 0 => diag = "MissingColon"
    /\ (FirstColon(s) > 0 /\ Cardinality(Underscores(s)) = 0)
          => diag = "MissingUnderscore1"
    /\ (FirstColon(s) > 0 /\ Cardinality(Underscores(s)) = 1)
          => diag = "MissingUnderscore2"
    /\ (FirstColon(s) > 0 /\ Cardinality(Underscores(s)) = 2)
          => diag = "MissingUnderscore3"
    /\ s \in {NoColonHere, <<>>} => diag = "MissingColon"

\* C5 as stated: no ':' gives MissingColon, k < 3 underscores before the first
\* ':' give MissingUnderscore(k+1), and "a_b_c_noUnderscorePattern:" is a case
\* of insufficient underscores.
C5_DelimiterKindsAsStated ==
    Returned =>
        /\ DelimiterKinds(id)
        /\ id = NoUnderscorePattern =>
              diag \in {"MissingUnderscore1", "MissingUnderscore2", "MissingUnderscore3"}

\* C5 amended: no ':' gives MissingColon and k < 3 underscores before the
\* first ':' give MissingUnderscore(k+1); "a_b_c_noUnderscorePattern:" has
\* three underscores before its ':' and fails with BadOffset1.
C5_DelimiterKinds ==
    Returned =>
        /\ DelimiterKinds(id)
        /\ id = NoUnderscorePattern =>
              (Cardinality(Underscores(id)) = 3 /\ diag = "BadOffset1")

C5_Witness ==
    Returned /\ id = NoUnderscorePattern /\ diag = "BadOffset1"

(***************************************************************************)
(* C6: unknown contig, and the frame of lowOut and highOut                 *)
(***************************************************************************)
\* well formed but for a contig name the genome does not hold
WellFormedUnknown(s) ==
    /\ HasFields(s)
    /\ HasIntegerPrefix(Offset1Field(s))
    /\ Offset2Field(s) = <<>> \/ HasIntegerPrefix(Offset2Field(s))
    /\ Len(ContigField(s)) < contigNameMaxSize
    /\ ~Known(ContigField(s))

\* C6: an otherwise well-formed id with an unknown contig name fails with
\* UnknownContig; after every failure the caller's lowOut and highOut hold
\* what they held, and after a successful decode each is written iff its
\* pointer is not NULL.
C6_UnknownContigAndFrame ==
    /\ (Returned /\ WellFormedUnknown(id)) => diag = "UnknownContig"
    /\ (Failed \/ pc = "exited") => (lowOut = LowPrior /\ highOut = HighPrior)
    /\ Decoded =>
          /\ lowOutNull <=> (lowOut = LowPrior)
          /\ highOutNull <=> (highOut = HighPrior)
          /\ BothOut => ~Lt32(highOut, lowOut)

C6_Witness ==
    /\ Failed /\ BothOut /\ WellFormedUnknown(id) /\ diag = "UnknownContig"
    /\ lowOut = LowPrior /\ highOut = HighPrior

(***************************************************************************)
(* C7: the single-end default                                              *)
(***************************************************************************)
\* the unsigned a decimal integer text converts to
IntegerValue(f) ==
    IF f[1] = "-" THEN Neg32(U32(DecimalValue(Tail(f))))
    ELSE IF f[1] = "+" THEN U32(DecimalValue(Tail(f)))
    ELSE U32(DecimalValue(f))

SingleEndForm(s) ==
    /\ HasFields(s)
    /\ Offset2Field(s) = <<>>
    /\ IsInteger(Offset1Field(s)) /\ Len(Offset1Field(s)) <= 9
    /\ Known(ContigField(s))

SingleEndDecodes(s) ==
    LET at == Sub32(Add32(IntegerValue(Offset1Field(s)), Base(ContigField(s))),
                    U32(1))
    IN  /\ diag = "none"
        /\ ~lowOutNull => lowOut = at
        /\ ~highOutNull => highOut = at

\* C7 as stated: every id with an empty offset2 field and an integer offset1
\* for a known contig decodes with low = high = offset1 + base - 1.
C7_SingleEndAnyName ==
    (Returned /\ SingleEndForm(id)) => SingleEndDecodes(id)

\* C7 amended: the same for a contig name shorter than contigNameMaxSize; and
\* BadOffset2 is reported for no id whose offset2 field is empty.
C7_SingleEnd ==
    /\ (Returned /\ SingleEndForm(id)
                 /\ Len(ContigField(id)) < contigNameMaxSize) => SingleEndDecodes(id)
    /\ (Returned /\ HasFields(id) /\ Offset2Field(id) = <<>>) => diag # "BadOffset2"

C7_Witness ==
    /\ Decoded /\ BothOut /\ SingleEndForm(id)
    /\ lowOut = highOut /\ lowOut = U32(1001)

(***************************************************************************)
(* C8: the verdict against the rule in unbounded integers                  *)
(***************************************************************************)
\* C8: for every location, decoded interval and maxK >= 0 the call returns
\* what the decision rule gives in unbounded integers; no sum wraps.
C8_NoSilentWrap ==
    (Decoded /\ BothOut /\ maxK >= 0) =>
        (ret <=> RuleMisaligned(genomeLocation, lowOut, highOut, maxK))

(***************************************************************************)
(* C9: the offset fields are integers                                      *)
(***************************************************************************)
\* white space and then a decimal integer, with nothing after it
IsIntegerField(f) ==
    \E m \in 0..Len(f) :
        /\ \A i \in 1..m : IsSpace(f[i])
        /\ IsInteger(SubSeq(f, m + 1, Len(f)))

\* C9: an offset1 field that is not a decimal integer fails with BadOffset1, a
\* non-empty offset2 field that is not one fails with BadOffset2, and no id
\* decodes from a numeric prefix of a field.
C9_IntegerFields ==
    (Returned /\ HasFields(id)) =>
        /\ ~IsIntegerField(Offset1Field(id)) => diag = "BadOffset1"
        /\ (IsIntegerField(Offset1Field(id)) /\ Offset2Field(id) # <<>>
               /\ ~IsIntegerField(Offset2Field(id))) => diag = "BadOffset2"
        /\ diag = "none" =>
              /\ IsIntegerField(Offset1Field(id))
              /\ Offset2Field(id) = <<>> \/ IsIntegerField(Offset2Field(id))

(***************************************************************************)
(* C10: the order of the failure kinds                                     *)
(***************************************************************************)
Offset1Fails(s) == ~HasIntegerPrefix(Offset1Field(s))
Offset2Fails(s) == Offset2Field(s) # <<>> /\ ~HasIntegerPrefix(Offset2Field(s))
NameFails(s) == Len(ContigField(s)) >= contigNameMaxSize

DelimiterKind(s) ==
    IF FirstColon(s) = 0 THEN "MissingColon"
    ELSE IF Cardinality(Underscores(s)) = 0 THEN "MissingUnderscore1"
    ELSE IF Cardinality(Underscores(s)) = 1 THEN "MissingUnderscore2"
    ELSE IF Cardinality(Underscores(s)) = 2 THEN "MissingUnderscore3"
    ELSE "none"

\* the earliest failing step, the contig name's size checked before the offsets
KindNameFirst(s) ==
    IF DelimiterKind(s) # "none" THEN DelimiterKind(s)
    ELSE IF NameFails(s) THEN "ContigNameTooLong"
    ELSE IF Offset1Fails(s) THEN "BadOffset1"
    ELSE IF Offset2Fails(s) THEN "BadOffset2"
    ELSE IF ~Known(ContigField(s)) THEN "UnknownContig"
    ELSE "none"

\* the earliest failing step, the offsets checked before the contig name's size
KindOffsetsFirst(s) ==
    IF DelimiterKind(s) # "none" THEN DelimiterKind(s)
    ELSE IF Offset1Fails(s) THEN "BadOffset1"
    ELSE IF Offset2Fails(s) THEN "BadOffset2"
    ELSE IF NameFails(s) THEN "ContigNameTooLong"
    ELSE IF ~Known(ContigField(s)) THEN "UnknownContig"
    ELSE "none"

\* C10 as stated: the failure reported is that of the earliest failing step of
\* MissingColon, MissingUnderscore1..3, ContigNameTooLong, BadOffset1,
\* BadOffset2, UnknownContig.
C10_OrderNameFirst == Returned => diag = KindNameFirst(id)

\* C10 amended: the failure reported is that of the earliest failing step of
\* MissingColon, MissingUnderscore1..3, BadOffset1, BadOffset2,
\* ContigNameTooLong, UnknownContig; a contig name of contigNameMaxSize bytes
\* or more fails with ContigNameTooLong when both offset fields parse, and a
\* shorter one never does.
C10_OrderOffsetsFirst ==
    /\ Returned => diag = KindOffsetsFirst(id)
    /\ (Returned /\ diag = "ContigNameTooLong") => NameFails(id)

C10_Witness ==
    /\ Returned /\ HasFields(id) /\ NameFails(id) /\ Offset1Fails(id)
    /\ diag = "BadOffset1"

====
